---- MODULE Spec2Model ----
(***************************************************************************)
(* Order-lifecycle core of the broker service (src/broker/app).            *)
(*                                                                         *)
(* State: the order ledger (store.orders), the pending-conditional index   *)
(* (pending_conditional_orders, an insertion-ordered dict), the routing    *)
(* calls awaiting the venue's answer, and the reply to the latest HTTP     *)
(* request (POST /orders, DELETE /orders/{id}, POST /exec).  One action    *)
(* per handler; a handler that awaits the venue is split at that await,    *)
(* the only suspension point at which another handler can observe or       *)
(* change the ledger before the handler goes on mutating it.               *)
(*                                                                         *)
(* place_order is the intake as the source has it, which fails on every    *)
(* request before it reaches the ledger (SpecAsWritten).  The handlers     *)
(* behind it are exercised by place_order_checked, the same handler with   *)
(* the Risk Gate's verdict awaited (Spec, SpecFills).                      *)
(*                                                                         *)
(* Numbers: order prices are whole currency units; avg_price is kept in    *)
(* millionths (the six decimals of round(x, 6)).  None is 0 for the        *)
(* validated fields that must be > 0 when present (limit_price,            *)
(* stop_price, trailing_percent, profit_target, stop_loss) and for order   *)
(* ids; avg_price, which may legitimately be any float, is <<>> for None   *)
(* and <<v>> otherwise.                                                    *)
(*                                                                         *)
(* Derived state: the order book entries the handlers add and remove, the  *)
(* position per symbol, the trade journal, and the fate of the latest      *)
(* risk-violation event.  Money amounts of a position are exact fractions  *)
(* <<numerator, denominator>> in lowest terms.                             *)
(*                                                                         *)
(* Not in the state: timestamps, the generated ladder of an order book     *)
(* (its sizes, 550 to 1000, match no reported quantity here), position     *)
(* and position history.                                                   *)
(*                                                                         *)
(* The websocket manager (ws.py) is modelled on its own: the subscriber    *)
(* set and the broadcast in progress, one step per awaited send.  In the   *)
(* handlers a broadcast is one step, since it raises nothing and touches   *)
(* no order; what it carries is recorded as the ids of the orders in the   *)
(* payloads of the latest step.  The monitor task is one step per pass     *)
(* (split at the venue call like the handlers); its position and the       *)
(* parity of the number of passes it has started are in the state.         *)
(***************************************************************************)
EXTENDS Integers, Sequences, FiniteSets, TLC

\* ------------------------------------------------------------ constants
LastTrade == 100
MaxNotional == 250000
CollarPct == 10
RefPrice == 100
Micro == 1000000

\* ------------------------------------------------------------ bounds
MaxOrders == 4
MaxExecs == 1
MaxFills == 6

Terminal == {"FILLED", "CANCELED", "REJECTED"}
ConditionalTypes == {"STOP", "STOP_LIMIT", "TRAILING_STOP", "TRAILING_STOP_LIMIT"}

VARIABLES orders, pending, inflight, route_calls, trig_count, reply,
          order_books, positions, trade_journal, notified,
          clients, sending, broadcasts, monitor

vars == <<orders, pending, inflight, route_calls, trig_count, reply,
          order_books, positions, trade_journal, notified,
          clients, sending, broadcasts, monitor>>

\* ws_manager.clients and the broadcast in progress.
ws_vars == <<clients, sending>>

\* ------------------------------------------------------------ requests
\* OrderIn with the fields the core reads.
OrderIn(type, side, qty, limit, stop, trail, target, loss) ==
    [symbol |-> "AAPL", side |-> side, order_type |-> type, qty |-> qty,
     limit_price |-> limit, stop_price |-> stop, trailing_percent |-> trail,
     tif |-> "DAY", profit_target |-> target, stop_loss |-> loss,
     parent_order_id |-> 0, linked_order_id |-> 0]

NoReq == OrderIn("", "", 0, 0, 0, 0, 0, 0)

\* Requests around the notional cap and the collar, for the Risk Gate.
GateRequests ==
    { OrderIn(t, s, q, p, 0, 0, 0, 0) :
        t \in {"MARKET", "LIMIT"}, s \in {"BUY", "SELL"},
        q \in {1, 2272, 2273, 2500, 2501, 2778},
        p \in {0, 89, 90, 100, 110, 111} }

\* ------------------------------------------------------------ Risk Gate
Abs(x) == IF x < 0 THEN -x ELSE x

\* within_collars with the boundary excluded.
within_collars_strict(last_trade, price, pct) ==
    IF last_trade <= 0 THEN TRUE
    ELSE Abs(price - last_trade) * 100 < last_trade * pct

\* pct is in percent: abs(price - last_trade) <= last_trade * pct / 100.
within_collars(last_trade, price, pct) ==
    IF last_trade <= 0 THEN TRUE
    ELSE Abs(price - last_trade) * 100 <= last_trade * pct

Notional(order) ==
    (IF order.limit_price # 0 THEN order.limit_price ELSE LastTrade) * order.qty

\* The (allowed, reason) pair the coroutine returns.  A reason is the
\* message's fixed text with the numbers formatted into it.
pretrade_checks(order) ==
    LET notional == Notional(order)
        ref_price == IF order.limit_price # 0 THEN order.limit_price ELSE LastTrade
    IN  IF notional > MaxNotional
        THEN [ok |-> FALSE,
              reason |-> <<"Max notional exceeded", notional, MaxNotional>>]
        ELSE IF ~within_collars(LastTrade, ref_price, CollarPct)
        THEN [ok |-> FALSE,
              reason |-> <<"Outside price collars", CollarPct, LastTrade>>]
        ELSE [ok |-> TRUE, reason |-> <<>>]

\* ------------------------------------------------------------ Init
NoOrders == [i \in {} |-> 0]

\* The last RISK_VIOLATION event handed to send_risk_notification and what
\* became of it; none yet.
NoNotice == [violation |-> "", outcome |-> "", sent |-> FALSE]

\* No broadcast in progress and none made yet.
NoBroadcast ==
    [active |-> FALSE, began |-> {}, todo |-> {}, dead |-> {}, delivered |-> {}]

Response(op, id, code, detail, req) ==
    [op |-> op, id |-> id, code |-> code, detail |-> detail, req |-> req]

Init ==
    /\ orders = NoOrders
    /\ pending = <<>>
    /\ inflight = {}
    /\ route_calls = NoOrders
    /\ trig_count = NoOrders
    /\ reply = Response("startup", 0, 0, <<>>, NoReq)
    /\ order_books = NoOrders
    /\ positions = NoOrders
    /\ trade_journal = <<>>
    /\ notified = NoNotice
    /\ clients = {}
    /\ sending = NoBroadcast
    /\ broadcasts = {}
    /\ monitor = [task |-> "sleep1", pass |-> 0]

\* ------------------------------------------------------------ intake
\* place_order as the source has it: pretrade_checks is a coroutine
\* function and line 627 calls it without await, so "ok, reason = ..."
\* unpacks a coroutine object and raises TypeError on every request; the
\* handler's "except Exception" turns it into a 500.  Nothing past line
\* 627 runs.
place_order(order_in) ==
    /\ reply' = Response("place_order", 0, 500,
                        <<"Internal server error", "cannot unpack non-iterable coroutine object">>,
                        order_in)
    /\ broadcasts' = {}
    /\ UNCHANGED <<orders, pending, inflight, route_calls, trig_count,
                   order_books, positions, trade_journal, notified, ws_vars, monitor>>

\* What becomes of the event posted to the notification sink.
SinkOutcomes == {"delivered", "error_response", "exception", "unreachable"}

\* session.post(...) of publish_event: it raises, or answers with a status.
session_post(sink) ==
    [raised |-> sink \in {"exception", "unreachable"},
     status |-> IF sink = "delivered" THEN 200 ELSE 503]

\* publish_event: True on status 200, False on another status and on any
\* exception, which its except clause swallows.
publish_event(sink) ==
    LET p == session_post(sink)
    IN  [raised |-> FALSE, value |-> ~p.raised /\ p.status = 200]

\* send_risk_notification: its own except clause lets nothing out.
send_risk_notification(sink) ==
    LET p == publish_event(sink)
    IN  [raised |-> FALSE, sent |-> ~p.raised /\ p.value]

\* pretrade_checks_awaited with a rejection that needs the event delivered.
pretrade_checks_delivered(order, sink) ==
    LET r == pretrade_checks(order)
        n == send_risk_notification(sink)
    IN  IF r.ok THEN [raised |-> FALSE, ok |-> TRUE, reason |-> <<>>, notified |-> NoNotice]
        ELSE IF ~n.sent
        THEN [raised |-> TRUE, ok |-> FALSE, reason |-> <<>>,
              notified |-> [violation |-> r.reason[1], outcome |-> sink, sent |-> n.sent]]
        ELSE [raised |-> FALSE, ok |-> FALSE, reason |-> r.reason,
              notified |-> [violation |-> r.reason[1], outcome |-> sink, sent |-> n.sent]]

\* The coroutine run to its end: on a violation it awaits
\* send_risk_notification and then returns the rejection.
pretrade_checks_awaited(order, sink) ==
    LET r == pretrade_checks(order)
        n == send_risk_notification(sink)
    IN  IF r.ok THEN [raised |-> FALSE, ok |-> TRUE, reason |-> <<>>, notified |-> NoNotice]
        ELSE IF n.raised
        THEN [raised |-> TRUE, ok |-> FALSE, reason |-> <<>>,
              notified |-> [violation |-> r.reason[1], outcome |-> sink, sent |-> FALSE]]
        ELSE [raised |-> FALSE, ok |-> FALSE, reason |-> r.reason,
              notified |-> [violation |-> r.reason[1], outcome |-> sink, sent |-> n.sent]]

\* The Risk Gate applied to a request (the coroutine awaited).
risk_gate(order_in, sink) ==
    LET g == pretrade_checks_awaited(order_in, sink)
    IN  /\ reply' = Response("pretrade_checks", 0,
                            IF g.raised THEN 500 ELSE IF g.ok THEN 200 ELSE 400,
                            g.reason, order_in)
        /\ notified' = IF g.ok THEN notified ELSE g.notified
        /\ broadcasts' = {}
        /\ UNCHANGED <<orders, pending, inflight, route_calls, trig_count,
                       order_books, positions, trade_journal, ws_vars, monitor>>

\* ------------------------------------------------------------ ledger
\* OrderOut(id=..., **fields): status NEW, filled_qty 0, leaves_qty 0,
\* avg_price None, message None and an empty execution log by default.
OrderOut(req, parent, linked) ==
    [symbol |-> req.symbol, side |-> req.side, order_type |-> req.order_type,
     qty |-> req.qty, limit_price |-> req.limit_price,
     stop_price |-> req.stop_price, trailing_percent |-> req.trailing_percent,
     tif |-> req.tif, profit_target |-> req.profit_target,
     stop_loss |-> req.stop_loss,
     parent_order_id |-> parent, linked_order_id |-> linked,
     status |-> "NEW", filled_qty |-> 0, leaves_qty |-> 0, avg_price |-> <<>>,
     message |-> "", execution_log |-> <<>>]

\* d[k] = v on a dict that may or may not hold k.
Put(d, k, v) == [x \in DOMAIN d \cup {k} |-> IF x = k THEN v ELSE d[x]]

\* del d[k] on the insertion-ordered pending index.
Del(seq, k) == SelectSeq(seq, LAMBDA x : x # k)

InPending(pend, k) == \E i \in 1..Len(pend) : pend[i] = k

\* uuid4(): an id no order has yet.
FreshId(ords, n) == Cardinality(DOMAIN ords) + n

\* ------------------------------------------------------------ order book
NoBook == [bids |-> <<>>, asks |-> <<>>]

\* create_order_book_snapshot: the book of a symbol, made on first use.
create_order_book_snapshot(books, symbol) ==
    IF symbol \in DOMAIN books THEN books ELSE Put(books, symbol, NoBook)

\* append followed by the stable sort on price: the new entry <<price,
\* size>> goes behind every entry that sorts before it or ties with it.
RECURSIVE InsertSorted(_, _, _)
InsertSorted(entries, e, descending) ==
    IF entries = <<>> THEN <<e>>
    ELSE IF \/ descending /\ Head(entries)[1] >= e[1]
            \/ ~descending /\ Head(entries)[1] <= e[1]
         THEN <<Head(entries)>> \o InsertSorted(Tail(entries), e, descending)
         ELSE <<e>> \o entries

update_order_book(books, symbol, side, price, size, action) ==
    LET b0 == create_order_book_snapshot(books, symbol)
        keep(x) == ~(x[1] = price /\ x[2] = size)
    IN  IF side = "BUY"
        THEN IF action = "ADD"
             THEN [b0 EXCEPT ![symbol].bids = InsertSorted(@, <<price, size>>, TRUE)]
             ELSE IF action = "REMOVE"
             THEN [b0 EXCEPT ![symbol].bids = SelectSeq(@, keep)]
             ELSE b0
        ELSE IF action = "ADD"
             THEN [b0 EXCEPT ![symbol].asks = InsertSorted(@, <<price, size>>, FALSE)]
             ELSE IF action = "REMOVE"
             THEN [b0 EXCEPT ![symbol].asks = SelectSeq(@, keep)]
             ELSE b0

\* ------------------------------------------------------------ routing
\* route_start with the post made a second time.
route_start_twice(st, oid) ==
    [st |-> [st EXCEPT !.route_calls[oid] = @ + 2,
                       !.order_books = create_order_book_snapshot(@, st.orders[oid].symbol)],
     posted |-> TRUE]

\* route_order_to_exchange up to its await of client.post.  For a LIMIT or
\* STOP_LIMIT order update_order_book builds OrderBookEntry(price=limit_price):
\* with no limit price that raises inside the try, and the except marks the
\* order REJECTED without any call to the venue.
route_start(st, oid) ==
    LET o == st.orders[oid]
        st1 == [st EXCEPT !.route_calls[oid] = @ + 1,
                          !.order_books = create_order_book_snapshot(@, o.symbol)]
    IN  IF o.order_type \in {"LIMIT", "STOP_LIMIT"} /\ o.limit_price = 0
        THEN [st |-> [st1 EXCEPT !.orders[oid].status = "REJECTED",
                                 !.orders[oid].message = "Route error",
                                 !.broadcasts = @ \cup {oid}],
              posted |-> FALSE]
        ELSE IF o.order_type \in {"LIMIT", "STOP_LIMIT"}
        THEN [st |-> [st1 EXCEPT !.order_books =
                         update_order_book(@, o.symbol, o.side, o.limit_price,
                                           o.qty, "ADD")],
              posted |-> TRUE]
        ELSE [st |-> st1, posted |-> TRUE]

\* route_finish with the exception of a timed-out post left uncaught.
route_finish_silent(st, oid, outcome) ==
    IF outcome # "refused" THEN st
    ELSE [st EXCEPT !.orders[oid].status = "REJECTED",
                    !.orders[oid].message = "Exchange error"]

\* The venue's answer reaches route_order_to_exchange: 202 leaves the order
\* alone, any other status code and any exception (the 10 s timeout
\* included) set REJECTED, whatever the order's status has become meanwhile.
route_finish(st, oid, outcome) ==
    IF outcome = "accepted" THEN st
    ELSE [st EXCEPT !.orders[oid].status = "REJECTED",
                    !.orders[oid].message =
                        IF outcome = "refused" THEN "Exchange error" ELSE "Route error",
                    !.broadcasts = @ \cup {oid}]

VenueOutcomes == {"accepted", "refused", "timeout"}

\* A handler's "await route_order_to_exchange(x)" for each x of todo in
\* turn, run to its next suspension: the order whose post is now in flight
\* (0 when every remaining route returned without one) and what is left.
\* ws_manager.broadcast({"type": ..., "data": order.model_dump()}): the
\* payload carries the order oid.
Broadcast(st, oid) == [st EXCEPT !.broadcasts = @ \cup {oid}]

\* What the caller does when a routing call has returned: the monitor
\* broadcasts the triggered order (lines 544-547), the intake handlers go
\* on to their next statement.
AfterRoute(st, oid, by) == IF by = "monitor" THEN Broadcast(st, oid) ELSE st

RECURSIVE RunRoutes(_, _, _)
RunRoutes(st, todo, by) ==
    IF todo = <<>> THEN [st |-> st, posted |-> 0, rest |-> <<>>]
    ELSE LET r == route_start(st, Head(todo))
         IN  IF r.posted
             THEN [st |-> r.st, posted |-> Head(todo), rest |-> Tail(todo)]
             ELSE RunRoutes(AfterRoute(r.st, Head(todo), by), Tail(todo), by)

\* done is the order the intake handler broadcasts once its routing calls
\* have returned (lines 668, 711, 759); 0 for the monitor.
Task(oid, rest, by, snap, done) ==
    [oid |-> oid, next |-> rest, by |-> by, snap |-> snap, done |-> done]

\* The store as a handler finds it, with nothing broadcast yet.
State == [orders |-> orders, pending |-> pending,
          route_calls |-> route_calls, trig_count |-> trig_count,
          order_books |-> order_books, broadcasts |-> {}]

Commit(st) ==
    /\ orders' = st.orders
    /\ pending' = st.pending
    /\ route_calls' = st.route_calls
    /\ trig_count' = st.trig_count
    /\ order_books' = st.order_books
    /\ broadcasts' = st.broadcasts

\* ------------------------------------------------------------ composite orders
\* handle_oco_order: a LIMIT and a STOP child, both linked to the parent's
\* id, stored and then routed one after the other.
handle_oco_order(st, oid) ==
    LET order == st.orders[oid]
        id1 == FreshId(st.orders, 1)
        id2 == FreshId(st.orders, 2)
        order1 == [OrderOut(order, 0, oid) EXCEPT
                      !.order_type = "LIMIT", !.stop_price = 0,
                      !.trailing_percent = 0, !.profit_target = 0, !.stop_loss = 0]
        order2 == [OrderOut(order, 0, oid) EXCEPT
                      !.order_type = "STOP", !.limit_price = 0,
                      !.trailing_percent = 0, !.profit_target = 0, !.stop_loss = 0]
    IN  [st |-> [st EXCEPT !.orders = Put(Put(@, id1, order1), id2, order2),
                           !.route_calls = Put(Put(@, id1, 0), id2, 0),
                           !.trig_count = Put(Put(@, id1, 0), id2, 0)],
         todo |-> <<id1, id2>>]

Opposite(side) == IF side = "BUY" THEN "SELL" ELSE "BUY"

\* handle_bracket_order: a MARKET entry, a LIMIT profit target and a STOP
\* stop loss, all carrying parent_order_id; only the entry is routed.
handle_bracket_order(st, oid) ==
    LET order == st.orders[oid]
        id1 == FreshId(st.orders, 1)
        id2 == FreshId(st.orders, 2)
        id3 == FreshId(st.orders, 3)
        bare == [OrderOut(order, oid, 0) EXCEPT
                    !.limit_price = 0, !.stop_price = 0, !.trailing_percent = 0,
                    !.profit_target = 0, !.stop_loss = 0]
        main_order == [bare EXCEPT !.order_type = "MARKET"]
        profit_order == [bare EXCEPT !.order_type = "LIMIT",
                            !.side = Opposite(order.side),
                            !.limit_price = order.profit_target, !.tif = "GTC"]
        stop_order == [bare EXCEPT !.order_type = "STOP",
                          !.side = Opposite(order.side),
                          !.stop_price = order.stop_loss, !.tif = "GTC"]
    IN  [st |-> [st EXCEPT
                    !.orders = Put(Put(Put(@, id1, main_order), id2, profit_order),
                                   id3, stop_order),
                    !.route_calls = Put(Put(Put(@, id1, 0), id2, 0), id3, 0),
                    !.trig_count = Put(Put(Put(@, id1, 0), id2, 0), id3, 0)],
         todo |-> <<id1>>]

IdsNeeded(req) ==
    IF req.order_type = "OCO" THEN 3
    ELSE IF req.order_type = "BRACKET" THEN 4 ELSE 1

\* ------------------------------------------------------------ intake, gate awaited
\* place_order from line 627 on with the Risk Gate's verdict delivered to
\* it (the coroutine awaited): the ledger insert, the branch on the order
\* type, and the routing up to the first await of the venue.  No later
\* step of the handler can raise or change its reply, so the reply (400
\* with the gate's reason, or 201 with the order) is recorded here.
place_order_checked(order_in) ==
    LET r == pretrade_checks(order_in)
        oid == FreshId(orders, 1)
        order == [OrderOut(order_in, order_in.parent_order_id, order_in.linked_order_id)
                     EXCEPT !.leaves_qty = order_in.qty]
        st0 == [State EXCEPT !.orders = Put(@, oid, order),
                             !.route_calls = Put(@, oid, 0),
                             !.trig_count = Put(@, oid, 0)]
    IN  IF ~r.ok
        THEN /\ \E sink \in SinkOutcomes :
                   LET g == pretrade_checks_awaited(order_in, sink)
                   IN  /\ reply' = Response("place_order", 0,
                                            IF g.raised THEN 500 ELSE 400,
                                            g.reason, order_in)
                       /\ notified' = g.notified
             /\ broadcasts' = {}
             /\ UNCHANGED <<orders, pending, inflight, route_calls, trig_count,
                            order_books, positions, trade_journal, ws_vars, monitor>>
        ELSE IF order_in.order_type \in ConditionalTypes
        THEN /\ Commit(Broadcast([st0 EXCEPT !.orders[oid].status = "STOP_PENDING",
                                             !.pending = Append(@, oid)], oid))
             /\ reply' = Response("place_order", oid, 201, <<>>, order_in)
             /\ UNCHANGED <<inflight, positions, trade_journal, notified, ws_vars, monitor>>
        ELSE LET h == IF order_in.order_type = "OCO" THEN handle_oco_order(st0, oid)
                      ELSE IF order_in.order_type = "BRACKET"
                      THEN handle_bracket_order(st0, oid)
                      ELSE [st |-> st0, todo |-> <<oid>>]
                 rr == RunRoutes(h.st, h.todo, "place_order")
             IN  /\ Commit(IF rr.posted = 0 THEN Broadcast(rr.st, oid) ELSE rr.st)
                 /\ reply' = Response("place_order", oid, 201, <<>>, order_in)
                 /\ inflight' = IF rr.posted = 0 THEN inflight
                                ELSE inflight \cup
                                     {Task(rr.posted, rr.rest, "place_order", <<>>, oid)}
                 /\ UNCHANGED <<positions, trade_journal, notified, ws_vars, monitor>>

\* ------------------------------------------------------------ monitor
\* The comparisons of one evaluation raise TypeError on a missing stop
\* price: "current_price >= None" for STOP and STOP_LIMIT, "None - float"
\* for a TRAILING_STOP that has a trailing percent.
EvalRaises(o) ==
    \/ o.order_type \in {"STOP", "STOP_LIMIT"} /\ o.stop_price = 0
    \/ o.order_type = "TRAILING_STOP" /\ o.trailing_percent # 0 /\ o.stop_price = 0

\* The trigger predicate of check_conditional_orders.  trailing_amount is
\* current_price * trailing_percent / 100, so both sides are scaled by 100.
\* TRAILING_STOP_LIMIT has no branch and never triggers.
Triggered(o, current_price) ==
    \/ /\ o.order_type \in {"STOP", "STOP_LIMIT"}
       /\ \/ o.side = "BUY" /\ current_price >= o.stop_price
          \/ o.side = "SELL" /\ current_price <= o.stop_price
    \/ /\ o.order_type = "TRAILING_STOP"
       /\ o.trailing_percent # 0
       /\ \/ /\ o.side = "BUY"
             /\ current_price * 100 <=
                    o.stop_price * 100 - current_price * o.trailing_percent
          \/ /\ o.side = "SELL"
             /\ current_price * 100 >=
                    o.stop_price * 100 + current_price * o.trailing_percent

\* TriggerStep with the order left in the index.
TriggerStep_kept(st, oid) ==
    [st EXCEPT !.orders[oid].status = "TRIGGERED",
               !.trig_count[oid] = @ + 1]

\* Lines 206-210: the status change and the removal from the index.
TriggerStep(st, oid) ==
    [st EXCEPT !.orders[oid].status = "TRIGGERED",
               !.pending = Del(@, oid),
               !.trig_count[oid] = @ + 1]

\* The for loop of check_conditional_orders over the live dict.  items is
\* the dict's content when the iteration began; the dict iterator compares
\* the dict's size with the size it started with before it yields the next
\* item or stops, and raises RuntimeError when they differ.
RECURSIVE CheckLoop(_, _, _, _, _, _)
CheckLoop(st, items, i, symbol, current_price, triggered) ==
    IF Len(st.pending) # Len(items)
    THEN [st |-> st, raised |-> TRUE, triggered |-> <<>>]
    ELSE IF i > Len(items)
    THEN [st |-> st, raised |-> FALSE, triggered |-> triggered]
    ELSE LET oid == items[i]
             o == st.orders[oid]
         IN  IF o.symbol # symbol
             THEN CheckLoop(st, items, i + 1, symbol, current_price, triggered)
             ELSE IF EvalRaises(o)
             THEN [st |-> st, raised |-> TRUE, triggered |-> <<>>]
             ELSE IF Triggered(o, current_price)
             THEN CheckLoop(TriggerStep(st, oid), items, i + 1, symbol,
                            current_price, Append(triggered, oid))
             ELSE CheckLoop(st, items, i + 1, symbol, current_price, triggered)

check_conditional_orders(st, symbol, current_price) ==
    CheckLoop(st, st.pending, 1, symbol, current_price, <<>>)

\* One pass of monitor_conditional_orders over snap, what is left of
\* list(pending_conditional_orders.items()), run to its end or to its next
\* suspension: the pass is over (sleep 1), an exception ended it (the
\* except clause, sleep 5), or a triggered order's post is in flight.
RECURSIVE MonitorLoop(_, _)
MonitorLoop(st, snap) ==
    IF snap = <<>> THEN [st |-> st, how |-> "done", task |-> {}]
    ELSE LET c == check_conditional_orders(st, st.orders[Head(snap)].symbol, RefPrice)
         IN  IF c.raised THEN [st |-> c.st, how |-> "raised", task |-> {}]
             ELSE LET rr == RunRoutes(c.st, c.triggered, "monitor")
                  IN  IF rr.posted = 0 THEN MonitorLoop(rr.st, Tail(snap))
                      ELSE [st |-> rr.st, how |-> "routing",
                            task |-> {Task(rr.posted, rr.rest, "monitor", Tail(snap), 0)}]

MonitorIdle == \A t \in inflight : t.by # "monitor"

\* PassEnd with no except clause around the pass: the exception ends the
\* task.
PassEnd_uncaught(how) ==
    IF how = "routing" THEN "routing"
    ELSE IF how = "raised" THEN "ended"
    ELSE "sleep1"

\* Where the task is after MonitorLoop: awaiting a routing call, in the
\* except clause's sleep(5) after an exception, or in the sleep(1) that
\* ends a pass.  From both sleeps "while True" starts the next pass.
PassEnd(how) ==
    IF how = "routing" THEN "routing"
    ELSE IF how = "raised" THEN "sleep5"
    ELSE "sleep1"

\* A pass of the background task, started when its sleep ends.
monitor_conditional_orders ==
    /\ MonitorIdle
    /\ monitor.task \in {"sleep1", "sleep5"}
    /\ LET m == MonitorLoop(State, pending)
       IN  /\ Commit(m.st)
           /\ inflight' = inflight \cup m.task
           /\ monitor' = [task |-> PassEnd(m.how), pass |-> 1 - monitor.pass]
           /\ UNCHANGED <<reply, positions, trade_journal, notified, ws_vars>>

\* ------------------------------------------------------------ venue answers
\* The awaited post of task t returns with outcome, and the handler that
\* made it runs on to its return or to its next post.
venue_respond(t, outcome) ==
    LET st1 == AfterRoute(route_finish(State, t.oid, outcome), t.oid, t.by)
        rr == RunRoutes(st1, t.next, t.by)
        m == IF rr.posted # 0
             THEN [st |-> rr.st, how |-> "routing",
                   task |-> {Task(rr.posted, rr.rest, t.by, t.snap, t.done)}]
             ELSE IF t.by = "place_order"
             THEN [st |-> Broadcast(rr.st, t.done), how |-> "done", task |-> {}]
             ELSE MonitorLoop(rr.st, t.snap)
    IN  /\ t \in inflight
        /\ Commit(m.st)
        /\ inflight' = (inflight \ {t}) \cup m.task
        /\ monitor' = IF t.by = "monitor"
                      THEN [monitor EXCEPT !.task = PassEnd(m.how)]
                      ELSE monitor
        /\ UNCHANGED <<reply, positions, trade_journal, notified, ws_vars>>

\* ------------------------------------------------------------ cancel
\* CancelLinked without the test of the linked order's status.
CancelLinked_always(ords, order_id) ==
    LET linked == ords[order_id].linked_order_id
    IN  IF linked # 0 /\ linked \in DOMAIN ords
        THEN [ords EXCEPT ![linked].status = "CANCELED",
                          ![linked].message = "Canceled due to OCO"]
        ELSE ords

\* Lines 781-787: the cascade to the order named by linked_order_id.
CancelLinked(ords, order_id) ==
    LET linked == ords[order_id].linked_order_id
    IN  IF linked # 0 /\ linked \in DOMAIN ords /\ ords[linked].status \notin Terminal
        THEN [ords EXCEPT ![linked].status = "CANCELED",
                          ![linked].message = "Canceled due to OCO"]
        ELSE ords

\* CancelRefused with nothing refused.
CancelRefused_never(o) == FALSE

\* Lines 769-770: the statuses cancel refuses.
CancelRefused(o) == o.status \in Terminal

\* CancelPending with the index left alone.
CancelPending_kept(pend, order_id) == pend

\* Lines 778-779: the order leaves the pending index if it is there.
CancelPending(pend, order_id) ==
    IF InPending(pend, order_id) THEN Del(pend, order_id) ELSE pend

cancel_order(order_id) ==
    IF order_id \notin DOMAIN orders
    THEN /\ reply' = Response("cancel_order", order_id, 404, <<"Order not found">>, NoReq)
         /\ broadcasts' = {}
         /\ UNCHANGED <<orders, pending, inflight, route_calls, trig_count,
                        order_books, positions, trade_journal, notified, ws_vars, monitor>>
    ELSE IF CancelRefused(orders[order_id])
    THEN /\ reply' = Response("cancel_order", order_id, 400,
                             <<"Order cannot be canceled", orders[order_id].status>>, NoReq)
         /\ broadcasts' = {}
         /\ UNCHANGED <<orders, pending, inflight, route_calls, trig_count,
                        order_books, positions, trade_journal, notified, ws_vars, monitor>>
    ELSE /\ orders' = CancelLinked([orders EXCEPT ![order_id].status = "CANCELED",
                                                  ![order_id].message = "Canceled by user"],
                                   order_id)
         /\ pending' = CancelPending(pending, order_id)
         /\ reply' = Response("cancel_order", order_id, 200, <<>>, NoReq)
         /\ broadcasts' = {order_id}
         /\ UNCHANGED <<inflight, route_calls, trig_count,
                        order_books, positions, trade_journal, notified, ws_vars, monitor>>

\* ------------------------------------------------------------ execution reports
ExecIn(order_id, price, qty, status) ==
    [order_id |-> order_id, price |-> price, qty |-> qty, status |-> status,
     message |-> "exec"]

\* round(num / den, 6) on a value counted in millionths: the nearest
\* integer.  A quotient that lies exactly half way is not a float; the
\* float next to it lies on one side or the other, so either neighbour can
\* be the result.
Round6(num, den) ==
    LET n == IF den < 0 THEN -num ELSE num
        d == Abs(den)
        fl == n \div d
        rem == n % d
    IN  IF 2 * rem < d THEN {fl}
        ELSE IF 2 * rem > d THEN {fl + 1}
        ELSE {fl, fl + 1}

\* Lines 986-989 after filled_qty has been raised to filled: the new
\* avg_price, or {} where the division by filled_qty = 0 raises.
NewAvg(o, er, filled) ==
    IF o.avg_price = <<>> THEN {<<er.price * Micro>>}
    ELSE IF filled = 0 THEN {}
    ELSE {<<a>> : a \in Round6(o.avg_price[1] * (filled - er.qty)
                                 + er.price * Micro * er.qty, filled)}

Max(a, b) == IF a >= b THEN a ELSE b

\* FillQty suspended between its two assignments: leaves_qty not yet set.
FillQty_suspended(o, er) == [o EXCEPT !.filled_qty = o.filled_qty + er.qty]

\* Lines 982-983.
FillQty(o, er) ==
    LET filled == o.filled_qty + er.qty
    IN  [o EXCEPT !.filled_qty = filled, !.leaves_qty = Max(0, o.qty - filled)]

\* SetStatus that leaves a FILLED, CANCELED or REJECTED order as it is.
SetStatus_unless_terminal(o, er) ==
    IF o.status \in Terminal THEN o
    ELSE [o EXCEPT !.status = er.status, !.message = er.message]

\* Lines 991-992: status and message are the report's.
SetStatus(o, er) == [o EXCEPT !.status = er.status, !.message = er.message]

\* add_to_trade_journal formats the order's prices with ":.2f" (lines
\* 332-351), which raises TypeError on None.
JournalRaises(o) ==
    \/ o.order_type = "LIMIT" /\ o.limit_price = 0
    \/ o.order_type = "STOP" /\ o.stop_price = 0
    \/ o.order_type = "STOP_LIMIT" /\ (o.stop_price = 0 \/ o.limit_price = 0)

\* ------------------------------------------------------------ positions
\* Exact fractions <<n, d>> with d > 0, in lowest terms.
RECURSIVE GCD(_, _)
GCD(a, b) == IF b = 0 THEN a ELSE GCD(b, a % b)

Frac(n, d) ==
    LET sgn == IF d < 0 THEN -1 ELSE 1
        g == GCD(Abs(n), Abs(d))
    IN  <<(sgn * n) \div g, (sgn * d) \div g>>

FInt(n) == <<n, 1>>
FAdd(x, y) == Frac(x[1] * y[2] + y[1] * x[2], x[2] * y[2])
FSub(x, y) == Frac(x[1] * y[2] - y[1] * x[2], x[2] * y[2])
FMul(x, y) == Frac(x[1] * y[1], x[2] * y[2])
FDiv(x, y) == Frac(x[1] * y[2], x[2] * y[1])
FMax(x, y) == IF x[1] * y[2] >= y[1] * x[2] THEN x ELSE y

\* Position(symbol, quantity=0, avg_price=0, ..., cost_basis=0).
NewPosition ==
    [quantity |-> 0, avg_price |-> FInt(0), cost_basis |-> FInt(0),
     realized_pnl |-> FInt(0)]

update_position(ps, symbol, side, qty, price) ==
    LET p0 == IF symbol \in DOMAIN ps THEN ps ELSE Put(ps, symbol, NewPosition)
        pos == p0[symbol]
    IN  IF side = "BUY"
        THEN LET new_quantity == pos.quantity + qty
                 new_cost == FAdd(pos.cost_basis, FInt(qty * price))
             IN  [p0 EXCEPT ![symbol] =
                    [pos EXCEPT !.quantity = new_quantity,
                                !.cost_basis = new_cost,
                                !.avg_price = IF new_quantity > 0
                                              THEN FDiv(new_cost, FInt(new_quantity))
                                              ELSE FInt(0)]]
        ELSE IF pos.quantity > 0
        THEN LET sold_cost == FMul(Frac(qty, pos.quantity), pos.cost_basis)
                 sold_value == FInt(qty * price)
                 realized_pnl == FSub(sold_value, sold_cost)
                 new_quantity == pos.quantity - qty
                 new_cost == FSub(pos.cost_basis, sold_cost)
             IN  [p0 EXCEPT ![symbol] =
                    [pos EXCEPT !.realized_pnl = FAdd(@, realized_pnl),
                                !.quantity = Max(0, new_quantity),
                                !.cost_basis = FMax(FInt(0), new_cost),
                                !.avg_price = IF new_quantity > 0
                                              THEN FDiv(new_cost, FInt(new_quantity))
                                              ELSE FInt(0)]]
        ELSE p0

\* ------------------------------------------------------------ trade journal
JournalCap == 1000

\* uuid4() for a journal entry: entries are numbered as they are made.
FreshEntryId(journal) ==
    IF journal = <<>> THEN 1 ELSE journal[Len(journal)].id + 1

\* TradeJournal(...) with the fields that identify the execution and one
\* of the annotation fields.
JournalEntry(journal, er, o) ==
    [id |-> FreshEntryId(journal), order_id |-> er.order_id, symbol |-> o.symbol,
     side |-> o.side, qty |-> er.qty, price |-> er.price,
     outcome |-> IF o.side = "BUY" THEN "Open" ELSE "Closed"]

\* add_to_trade_journal with no eviction.
add_to_trade_journal_unbounded(journal, er, o) ==
    Append(journal, JournalEntry(journal, er, o))

\* Lines 470-474: append, then pop(0) when the list is longer than the cap.
add_to_trade_journal(journal, er, o) ==
    LET j1 == Append(journal, JournalEntry(journal, er, o))
    IN  IF Len(j1) > JournalCap THEN Tail(j1) ELSE j1

\* The first index whose entry has the id, 0 when there is none.
RECURSIVE EntryIndex(_, _, _)
EntryIndex(journal, entry_id, i) ==
    IF i > Len(journal) THEN 0
    ELSE IF journal[i].id = entry_id THEN i
    ELSE EntryIndex(journal, entry_id, i + 1)

\* PUT /trade-journal/{entry_id}: setattr of each field the entry has.
\* The 404 of a missing entry is raised inside the try, whose only except
\* clause turns every exception into a 500.
update_trade_journal(entry_id, field, value) ==
    LET entry_index == EntryIndex(trade_journal, entry_id, 1)
    IN  /\ IF entry_index = 0
           THEN /\ reply' = Response("update_trade_journal", entry_id, 500,
                                     <<"Internal server error", "404: Journal entry not found">>,
                                     NoReq)
                /\ UNCHANGED trade_journal
           ELSE /\ reply' = Response("update_trade_journal", entry_id, 200, <<>>, NoReq)
                /\ trade_journal' =
                      IF field \in DOMAIN trade_journal[entry_index]
                      THEN [trade_journal EXCEPT ![entry_index][field] = value]
                      ELSE trade_journal
        /\ broadcasts' = {}
        /\ UNCHANGED <<orders, pending, inflight, route_calls, trig_count,
                       order_books, positions, notified, ws_vars, monitor>>

\* ------------------------------------------------------------ execution reports, the handler
\* exec_unknown with the position updated ahead of the ledger lookup.
exec_unknown_late(er) ==
    /\ reply' = Response("exec_report", er.order_id, 404,
                        <<"Unknown order for exec">>, NoReq)
    /\ positions' = update_position(positions, "AAPL", "BUY", er.qty, er.price)
    /\ broadcasts' = {}
    /\ UNCHANGED <<orders, pending, inflight, route_calls, trig_count,
                   order_books, trade_journal, notified, ws_vars, monitor>>

\* Lines 977-979: store.orders.get finds nothing and the handler raises the
\* 404 before it has written anything.
exec_unknown(er) ==
    /\ reply' = Response("exec_report", er.order_id, 404,
                        <<"Unknown order for exec">>, NoReq)
    /\ broadcasts' = {}
    /\ UNCHANGED <<orders, pending, inflight, route_calls, trig_count,
                   order_books, positions, trade_journal, notified, ws_vars, monitor>>

\* ExecBroadcast made as soon as the order record is updated.
ExecBroadcast_first(o, er) == {er.order_id}

\* Line 1019, the last statement before the return: it is reached when
\* lines 1007-1017 have raised nothing.
ExecBroadcast(o, er) == IF JournalRaises(o) THEN {} ELSE {er.order_id}

\* ExecFailed with the order put back as it was before the report.
ExecFailed_rollback(before, after) == before

\* Lines 1022-1025: the except clause answers 500 and touches nothing; the
\* order, changed in place up to the statement that raised, stays so.
ExecFailed(before, after) == after

exec_report(er) ==
    IF er.order_id \notin DOMAIN orders
    THEN exec_unknown(er)
    ELSE LET o == orders[er.order_id]
             o1 == FillQty(o, er)
             avgs == NewAvg(o, er, o1.filled_qty)
         IN  /\ IF avgs = {}
                THEN /\ orders' = [orders EXCEPT ![er.order_id] = ExecFailed(o, o1)]
                     /\ reply' = Response("exec_report", er.order_id, 500,
                                         <<"Internal server error", "division by zero">>, NoReq)
                     /\ broadcasts' = {}
                     /\ UNCHANGED <<order_books, positions, trade_journal>>
                ELSE \E avg \in avgs :
                     /\ orders' = [orders EXCEPT ![er.order_id] =
                           LET o2 == [SetStatus(o1, er) EXCEPT
                                      !.avg_price = avg,
                                      !.execution_log = Append(@, <<er.price, er.qty>>)]
                           IN  IF JournalRaises(o) THEN ExecFailed(o, o2) ELSE o2]
                     /\ reply' = IF JournalRaises(o)
                                THEN Response("exec_report", er.order_id, 500,
                                              <<"Internal server error", "journal">>, NoReq)
                                ELSE Response("exec_report", er.order_id, 200, <<>>, NoReq)
                     /\ positions' = update_position(positions, o.symbol, o.side,
                                                     er.qty, er.price)
                     /\ broadcasts' = ExecBroadcast(o, er)
                     /\ IF JournalRaises(o)
                        THEN UNCHANGED <<trade_journal, order_books>>
                        ELSE /\ trade_journal' = add_to_trade_journal(trade_journal, er, o)
                             /\ order_books' = update_order_book(order_books, o.symbol,
                                                   o.side, er.price, er.qty, "REMOVE")
             /\ UNCHANGED <<pending, inflight, route_calls, trig_count, notified, ws_vars, monitor>>

\* ------------------------------------------------------------ websocket manager
\* The websockets that may connect.
Sockets == {"ws1", "ws2", "ws3"}

core_vars == <<orders, pending, inflight, route_calls, trig_count, reply,
               order_books, positions, trade_journal, notified, broadcasts,
               monitor>>

\* connect: accept, then clients.add(ws).  A websocket object connects
\* once; one that is in the snapshot of the broadcast in progress is not a
\* new object.
connect(ws) ==
    /\ ws \notin clients
    /\ ws \notin sending.began
    /\ clients' = clients \cup {ws}
    /\ UNCHANGED <<sending, core_vars>>

\* disconnect: clients.discard(ws).
disconnect(ws) ==
    /\ ws \in clients
    /\ clients' = clients \ {ws}
    /\ UNCHANGED <<sending, core_vars>>

\* broadcast up to its first await: dead = [] and list(self.clients), the
\* snapshot the loop runs over.
broadcast_begin ==
    /\ ~sending.active
    /\ sending' = [active |-> TRUE, began |-> clients, todo |-> clients,
                   dead |-> {}, delivered |-> {}]
    /\ UNCHANGED <<clients, core_vars>>

\* One turn of the loop with no try around the send: the exception of a
\* failed send ends the broadcast.
send_json_uncaught(s, ws, sent) ==
    IF sent
    THEN [s EXCEPT !.todo = @ \ {ws}, !.delivered = @ \cup {ws}]
    ELSE [s EXCEPT !.todo = {}]

\* One turn of the loop: await ws.send_json(payload) returns, or raises
\* and the except clause appends ws to dead.
send_json(s, ws, sent) ==
    IF sent
    THEN [s EXCEPT !.todo = @ \ {ws}, !.delivered = @ \cup {ws}]
    ELSE [s EXCEPT !.todo = @ \ {ws}, !.dead = @ \cup {ws}]

\* list(self.clients) has the set's order, which is any order.
broadcast_send(ws, sent) ==
    /\ sending.active
    /\ ws \in sending.todo
    /\ sending' = send_json(sending, ws, sent)
    /\ UNCHANGED <<clients, core_vars>>

\* The loop is over: clients.discard(ws) for each ws in dead.
broadcast_end ==
    /\ sending.active
    /\ sending.todo = {}
    /\ clients' = clients \ sending.dead
    /\ sending' = [sending EXCEPT !.active = FALSE]
    /\ UNCHANGED core_vars

NextBroadcast ==
    \/ \E ws \in Sockets : connect(ws)
    \/ \E ws \in Sockets : disconnect(ws)
    \/ broadcast_begin
    \/ \E ws \in Sockets, sent \in BOOLEAN : broadcast_send(ws, sent)
    \/ broadcast_end

SpecBroadcast == Init /\ [][NextBroadcast]_vars

\* ------------------------------------------------------------ specifications
RECURSIVE LogTotal(_, _)
LogTotal(ords, n) ==
    IF n = 0 THEN 0 ELSE Len(ords[n].execution_log) + LogTotal(ords, n - 1)

Executions == LogTotal(orders, Cardinality(DOMAIN orders))

\* linked_order_id is a field of the request too: the STOP order names
\* order 1, so that cancelling it reaches the cascade of lines 781-787.
\* Orders routed at once are the children of the OCO and BRACKET orders.
Requests ==
    { [OrderIn("STOP", "BUY", 2, 0, 100, 0, 0, 0) EXCEPT !.linked_order_id = 1],
      OrderIn("OCO", "BUY", 2, 100, 105, 0, 0, 0),
      OrderIn("BRACKET", "BUY", 2, 0, 0, 0, 110, 95) }

\* The reports the venue sends for an order of quantity 2: a partial fill
\* of 1 and a complete fill, as <<qty, status>>.
ExecKinds == {<<1, "PARTIAL">>, <<2, "FILLED">>}
ExecPrices == {101}

Next ==
    \/ \E r \in Requests :
          /\ Cardinality(DOMAIN orders) + IdsNeeded(r) <= MaxOrders
          /\ place_order_checked(r)
    \/ \E t \in inflight, out \in VenueOutcomes : venue_respond(t, out)
    \/ \E id \in 1..MaxOrders : cancel_order(id)
    \/ \E id \in 1..MaxOrders, p \in ExecPrices, k \in ExecKinds :
          /\ Executions < MaxExecs
          /\ exec_report(ExecIn(id, p, k[1], k[2]))
    \/ monitor_conditional_orders

\* The lifecycle behind an intake that awaits the Risk Gate: every ledger
\* state the handlers can be handed.  Its behaviours include those of
\* SpecAsWritten's ledger, which stays empty.
Spec == Init /\ [][Next]_vars

\* The program as written: no request gets past line 627, so the ledger
\* stays empty and no routing call is ever made.
NextAsWritten ==
    \/ \E r \in GateRequests \cup Requests : place_order(r)
    \/ \E id \in 1..MaxOrders : cancel_order(id)
    \/ \E id \in 1..MaxOrders, p \in ExecPrices, k \in ExecKinds :
          exec_report(ExecIn(id, p, k[1], k[2]))
    \/ monitor_conditional_orders

SpecAsWritten == Init /\ [][NextAsWritten]_vars

\* The Risk Gate alone, over requests on both sides of the cap and of the
\* collar.
NextGate == \E r \in GateRequests, sink \in SinkOutcomes : risk_gate(r, sink)

SpecGate == Init /\ [][NextGate]_vars

\* One order and the execution reports it receives.
FillRequest == OrderIn("MARKET", "BUY", 13, 0, 0, 0, 0, 0)
FillQtys == {2, 3}
FillPrices == {100, 103}

NextFills ==
    \/ orders = NoOrders /\ place_order_checked(FillRequest)
    \/ \E t \in inflight : venue_respond(t, "accepted")
    \/ \E p \in FillPrices, q \in FillQtys :
          /\ 1 \in DOMAIN orders
          /\ Len(orders[1].execution_log) < MaxFills
          /\ exec_report(ExecIn(1, p, q, "PARTIAL"))

SpecFills == Init /\ [][NextFills]_vars

\* Two orders, one on each side, the reports the venue sends for them and
\* for an id the ledger never holds, and the journal's PUT endpoint.
MaxTrades == 3
TradeRequests ==
    { OrderIn("MARKET", "BUY", 10, 0, 0, 0, 0, 0),
      OrderIn("MARKET", "SELL", 10, 0, 0, 0, 0, 0) }
TradeOrderIds == {1, 2, 3}
TradeQtys == {5, 10}
TradePrices == {100, 110}
JournalUpdates == {<<"outcome", "Profit">>, <<"reviewed_by", "desk">>}

PlacedSides == {orders[i].side : i \in DOMAIN orders}

\* The venue fills no more than the order's quantity.
Fillable(id, q) ==
    id \in DOMAIN orders => orders[id].filled_qty + q <= orders[id].qty

NextTrades ==
    \/ \E r \in TradeRequests :
          /\ r.side \notin PlacedSides
          /\ place_order_checked(r)
    \/ \E t \in inflight : venue_respond(t, "accepted")
    \/ \E id \in TradeOrderIds, p \in TradePrices, q \in TradeQtys :
          /\ Len(trade_journal) < MaxTrades
          /\ Fillable(id, q)
          /\ exec_report(ExecIn(id, p, q, "PARTIAL"))
    \/ \E e \in 1..(MaxTrades + 1), u \in JournalUpdates :
          update_trade_journal(e, u[1], u[2])

SpecTrades == Init /\ [][NextTrades]_vars

\* The same two orders under reports whose quantity nothing validates:
\* ExecIn.qty is a plain int.
MaxReports == 3
MaxFilled == 4
ReportQtys == {-1, 1, 3}
ReportPrices == {10, 40}

Reportable(id, q) ==
    id \in DOMAIN orders => Abs(orders[id].filled_qty + q) <= MaxFilled

NextReports ==
    \/ \E r \in TradeRequests :
          /\ r.side \notin PlacedSides
          /\ place_order_checked(r)
    \/ \E t \in inflight : venue_respond(t, "accepted")
    \/ \E id \in TradeOrderIds, p \in ReportPrices, q \in ReportQtys :
          /\ Len(trade_journal) < MaxReports
          /\ Reportable(id, q)
          /\ exec_report(ExecIn(id, p, q, "PARTIAL"))
    \/ \E id \in TradeOrderIds : cancel_order(id)

SpecReports == Init /\ [][NextReports]_vars

\* One order and a run of reports long enough to fill the journal past its
\* cap.
MaxEntries == 1002
JournalRequest == OrderIn("MARKET", "BUY", 2000, 0, 0, 0, 0, 0)

NextJournal ==
    \/ orders = NoOrders /\ place_order_checked(JournalRequest)
    \/ \E t \in inflight : venue_respond(t, "accepted")
    \/ /\ 1 \in DOMAIN orders
       /\ Len(orders[1].execution_log) < MaxEntries
       /\ exec_report(ExecIn(1, 1, 1, "PARTIAL"))

SpecJournal == Init /\ [][NextJournal]_vars

\* The position of one symbol under the reports for a BUY and a SELL
\* order, negative quantities among them, long enough for a cost basis to
\* fall under zero and be floored.
MaxPositionReports == 4
PositionQtys == {-1, 1, 4}
PositionPrices == {10, 50}

NextPositions ==
    \/ \E r \in TradeRequests :
          /\ r.side \notin PlacedSides
          /\ place_order_checked(r)
    \/ \E t \in inflight : venue_respond(t, "accepted")
    \/ \E id \in 1..2, p \in PositionPrices, q \in PositionQtys :
          /\ id \in DOMAIN orders
          /\ Len(trade_journal) < MaxPositionReports
          /\ Reportable(id, q)
          /\ exec_report(ExecIn(id, p, q, "PARTIAL"))

SpecPositions == Init /\ [][NextPositions]_vars

\* Reports whose handling fails part of the way: for a LIMIT order placed
\* without a limit price the journal entry cannot be derived, and a
\* negative quantity can bring the filled quantity back to 0, where the
\* average price divides by it.  A MARKET order stands beside them.
MaxFailing == 3
FailingRequests ==
    { OrderIn("LIMIT", "BUY", 2, 0, 0, 0, 0, 0),
      OrderIn("MARKET", "SELL", 2, 0, 0, 0, 0, 0) }
FailingQtys == {-1, 1}
FailingPrices == {100}

NextFailing ==
    \/ \E r \in FailingRequests :
          /\ r.side \notin PlacedSides
          /\ place_order_checked(r)
    \/ \E t \in inflight : venue_respond(t, "accepted")
    \/ \E id \in 1..2, p \in FailingPrices, q \in FailingQtys :
          /\ id \in DOMAIN orders
          /\ Len(orders[id].execution_log) < MaxFailing
          /\ Reportable(id, q)
          /\ exec_report(ExecIn(id, p, q, "PARTIAL"))

SpecFailing == Init /\ [][NextFailing]_vars

\* Conditional orders of every type on both sides of their trigger at the
\* reference price 100, one without the stop price its evaluation needs,
\* and the monitor task.  No request here is routed at intake, and the
\* monitor never gets as far as a routing call (a pass that triggers an
\* order ends in the exception of line 179), so no venue answer is awaited.
MaxConditional == 3
MonitorRequests ==
    { OrderIn("STOP", "BUY", 2, 0, 100, 0, 0, 0),
      OrderIn("STOP", "BUY", 2, 0, 105, 0, 0, 0),
      OrderIn("STOP_LIMIT", "SELL", 2, 100, 100, 0, 0, 0),
      OrderIn("STOP", "SELL", 2, 0, 95, 0, 0, 0),
      OrderIn("TRAILING_STOP", "BUY", 2, 0, 110, 5, 0, 0),
      OrderIn("TRAILING_STOP", "SELL", 2, 0, 95, 5, 0, 0),
      OrderIn("TRAILING_STOP_LIMIT", "BUY", 2, 100, 110, 5, 0, 0),
      OrderIn("STOP", "BUY", 2, 0, 0, 0, 0, 0) }

NextMonitor ==
    \/ \E r \in MonitorRequests :
          /\ Cardinality(DOMAIN orders) < MaxConditional
          /\ place_order_checked(r)
    \/ \E id \in 1..MaxConditional : cancel_order(id)
    \/ monitor_conditional_orders

SpecMonitor == Init /\ [][NextMonitor]_vars

\* The monitor under fair scheduling.  monitor_wakes is a pass of the task
\* seen through `monitor` alone: the sleep of line 549 or 553 is over and
\* "while True" starts the next pass.  Among the steps of NextMonitor the
\* passes are exactly those that change monitor.pass, and the event loop
\* resumes a task whose sleep is over.
monitor_wakes ==
    /\ MonitorIdle
    /\ monitor.task \in {"sleep1", "sleep5"}
    /\ monitor' \in [task : {"sleep1", "sleep5", "routing"},
                     pass : {1 - monitor.pass}]

SpecMonitorFair == Init /\ [][NextMonitor]_vars /\ WF_monitor(monitor_wakes)

\* ------------------------------------------------------------ properties
Cancelable == {"NEW", "PARTIAL", "PENDING", "STOP_PENDING", "TRIGGERED"}

FrozenFields(o) == <<o.status, o.filled_qty, o.leaves_qty, o.avg_price>>

\* The children handle_oco_order made: orders linked to an OCO order.
IsOcoChild(id) ==
    /\ orders[id].linked_order_id \in DOMAIN orders
    /\ orders[id].linked_order_id # id
    /\ orders[orders[id].linked_order_id].order_type = "OCO"
    /\ orders[id].order_type \in {"LIMIT", "STOP"}

OcoSiblings(id) ==
    {d \in DOMAIN orders \ {id} :
        IsOcoChild(d) /\ orders[d].linked_order_id = orders[id].linked_order_id}

RECURSIVE LogNotional(_)
LogNotional(log) ==
    IF log = <<>> THEN 0 ELSE log[1][1] * log[1][2] + LogNotional(Tail(log))

\* C1: every order in the ledger, the children of OCO and BRACKET orders
\* included, has filled_qty + leaves_qty = qty with neither negative.
C1_QuantityIdentity ==
    \A id \in DOMAIN orders :
        /\ orders[id].filled_qty + orders[id].leaves_qty = orders[id].qty
        /\ orders[id].filled_qty >= 0
        /\ orders[id].leaves_qty >= 0

C1_ChildStored ==
    \E id \in DOMAIN orders : IsOcoChild(id) /\ orders[id].qty > 0

\* C2: once an order is FILLED, CANCELED or REJECTED, no step (execution
\* report, cancel, monitor trigger, completion of a routing call) changes
\* its status, filled_qty, leaves_qty or avg_price.
C2_TerminalFrozen ==
    [][\A id \in DOMAIN orders :
          orders[id].status \in Terminal =>
              FrozenFields(orders'[id]) = FrozenFields(orders[id])]_vars

C2_TerminalReached ==
    \E id \in DOMAIN orders : orders[id].status = "CANCELED"

\* C3: an order is triggered (set TRIGGERED and taken out of the pending
\* index) at most once.
C3_TriggeredAtMostOnce ==
    \A id \in DOMAIN orders :
        /\ trig_count[id] <= 1
        /\ trig_count[id] = 1 => ~InPending(pending, id)

\* Two orders triggered, the second by a pass that found the first
\* already triggered.
C3_TwoTriggered ==
    \E a, b \in DOMAIN orders :
        /\ a # b
        /\ trig_count[a] = 1 /\ trig_count[b] = 1
        /\ orders[a].status = "TRIGGERED" /\ orders[b].status = "TRIGGERED"
        /\ ~InPending(pending, a) /\ ~InPending(pending, b)

\* C4: every triggered conditional order has been handed to the Router
\* exactly once by the time the monitor's pass is over.
C4_TriggeredRoutedOnce ==
    MonitorIdle =>
        \A id \in DOMAIN orders : trig_count[id] >= 1 => route_calls[id] = 1

C4_Triggered ==
    \E id \in DOMAIN orders :
        trig_count[id] = 1 /\ orders[id].status = "TRIGGERED" /\ MonitorIdle

\* C5: a successful cancel of one child of an OCO pair leaves the other
\* child CANCELED, unless that one was terminal already.
C5_OcoSiblingCanceled ==
    [][\A c \in DOMAIN orders :
          (IsOcoChild(c) /\ orders[c].status \notin Terminal /\ cancel_order(c)) =>
              \A d \in OcoSiblings(c) :
                  orders[d].status \in Terminal \/ orders'[d].status = "CANCELED"]_vars

C5_ChildCanceled ==
    \E c \in DOMAIN orders :
        /\ IsOcoChild(c)
        /\ orders[c].status = "CANCELED"
        /\ orders[c].message = "Canceled by user"

\* C6: a cancel fails with 404 for an id the ledger does not hold and with
\* 400 for an order that is FILLED, CANCELED or REJECTED, and a failing
\* cancel changes no order, no entry of the pending index and no linked
\* order.
C6_CancelFails ==
    [][\A id \in 1..MaxOrders :
          cancel_order(id) =>
              /\ id \notin DOMAIN orders => reply'.code = 404
              /\ (id \in DOMAIN orders /\ orders[id].status \in Terminal) =>
                     reply'.code = 400
              /\ (id \notin DOMAIN orders \/ orders[id].status \in Terminal) =>
                     (orders' = orders /\ pending' = pending)
              /\ reply'.code \in {400, 404} =>
                     (id \notin DOMAIN orders \/ orders[id].status \in Terminal)]_vars

\* A refused cancel of a terminal order whose linked order is still live,
\* with the pending index not empty.
C6_RefusedWithLiveLink ==
    /\ reply.op = "cancel_order"
    /\ reply.code = 400
    /\ reply.id \in DOMAIN orders
    /\ orders[reply.id].linked_order_id \in DOMAIN orders
    /\ orders[orders[reply.id].linked_order_id].status \notin Terminal
    /\ pending # <<>>

\* C7: a cancel of an order that is NEW, PARTIAL, PENDING, STOP_PENDING or
\* TRIGGERED succeeds, and the same step sets it CANCELED and takes it out
\* of the pending index.
C7_CancelLive ==
    [][\A id \in DOMAIN orders :
          (orders[id].status \in Cancelable /\ cancel_order(id)) =>
              /\ reply'.code = 200
              /\ orders'[id].status = "CANCELED"
              /\ ~InPending(pending', id)]_vars

\* A conditional order cancelled while it waited in the pending index.
C7_PendingCanceled ==
    /\ reply.op = "cancel_order"
    /\ reply.code = 200
    /\ reply.id \in DOMAIN orders
    /\ orders[reply.id].order_type = "STOP"
    /\ trig_count[reply.id] = 0
    /\ orders[reply.id].status = "CANCELED"
    /\ ~InPending(pending, reply.id)

\* C8: after any sequence of execution reports with positive quantities,
\* avg_price is the quantity-weighted mean of the fill prices to within
\* 1e-6: |avg_price * filled - sum(price * qty)| <= 1e-6 * filled.
C8_AvgIsWeightedMean ==
    \A id \in DOMAIN orders :
        (orders[id].avg_price # <<>> /\ orders[id].filled_qty > 0) =>
            Abs(orders[id].avg_price[1] * orders[id].filled_qty
                - Micro * LogNotional(orders[id].execution_log))
                <= orders[id].filled_qty

C8_SixFills ==
    \E id \in DOMAIN orders : Len(orders[id].execution_log) = 6

\* C9: a request whose notional is over the cap is rejected by the intake
\* with a reason that holds the notional and the cap, and no order is
\* inserted.
C9_OverCapRejected ==
    (reply.op = "place_order" /\ Notional(reply.req) > MaxNotional) =>
        /\ reply.code = 400
        /\ reply.detail = <<"Max notional exceeded", Notional(reply.req), MaxNotional>>
        /\ orders = NoOrders

C9_OverCapAsked ==
    /\ reply.op = "place_order"
    /\ Notional(reply.req) > MaxNotional
    /\ orders = NoOrders

\* C10: for a request within the notional cap, the Risk Gate rejects it
\* exactly when |price - reference| > reference * collar_pct, the price
\* being the limit price or else the reference itself; a price on the
\* boundary is accepted.
C10_CollarDecides ==
    (reply.op = "pretrade_checks" /\ Notional(reply.req) <= MaxNotional) =>
        LET price == IF reply.req.limit_price # 0 THEN reply.req.limit_price
                     ELSE LastTrade
            outside == Abs(price - LastTrade) * 100 > LastTrade * CollarPct
        IN  /\ reply.code = 400 <=> outside
            /\ reply.code = 200 <=> ~outside
            /\ outside => reply.detail = <<"Outside price collars", CollarPct, LastTrade>>

\* A LIMIT request priced on the collar's edge, accepted.
C10_BoundaryAccepted ==
    /\ reply.op = "pretrade_checks"
    /\ reply.req.limit_price = 110
    /\ Notional(reply.req) <= MaxNotional
    /\ reply.code = 200

\* C11: when the Risk Gate rejects a request, the check returns the
\* rejection (not allowed, with the reason) and raises nothing, whatever
\* became of the risk-violation event: delivered, answered with an error
\* status, an exception in the post, or the sink out of reach.
C11_RejectionSurvivesSink ==
    (reply.op = "pretrade_checks" /\ ~pretrade_checks(reply.req).ok) =>
        /\ reply.code = 400
        /\ reply.detail = pretrade_checks(reply.req).reason
        /\ reply.detail # <<>>
        /\ notified.outcome \in SinkOutcomes
        /\ notified.violation = reply.detail[1]

\* A rejection returned after the event could not be published.
C11_RejectedUnpublished ==
    /\ reply.op = "pretrade_checks"
    /\ reply.code = 400
    /\ notified.outcome = "unreachable"
    /\ ~notified.sent

\* C12: the intake of a request that passes validation and the Risk Gate
\* answers with a created order, held in the ledger under the id the
\* server gave it: STOP_PENDING and in the pending index for STOP,
\* STOP_LIMIT, TRAILING_STOP and TRAILING_STOP_LIMIT, NEW for the others.
C12_CreatedOrderReturned ==
    (reply.op = "place_order" /\ pretrade_checks(reply.req).ok) =>
        /\ reply.code = 201
        /\ reply.id \in DOMAIN orders
        /\ reply.req.order_type \in ConditionalTypes =>
               (orders[reply.id].status = "STOP_PENDING" /\ InPending(pending, reply.id))
        /\ reply.req.order_type \notin ConditionalTypes =>
               orders[reply.id].status = "NEW"

\* A request the Risk Gate would let through has been answered.
C12_AcceptableAsked ==
    /\ reply.op = "place_order"
    /\ pretrade_checks(reply.req).ok
    /\ reply.req.order_type = "LIMIT"

\* C13: when the call to the venue times out, raises or is answered with
\* anything but an acceptance, the order is marked REJECTED with a message
\* that says why, and the routing call returns to its caller, which goes
\* on with the next order it has to route.
C13_VenueFailureRejects ==
    [][\A t \in inflight, out \in {"refused", "timeout"} :
          venue_respond(t, out) =>
              /\ orders'[t.oid].status = "REJECTED"
              /\ orders'[t.oid].message =
                     (IF out = "refused" THEN "Exchange error" ELSE "Route error")
              /\ t.next # <<>> =>
                     route_calls'[Head(t.next)] = route_calls[Head(t.next)] + 1]_vars

\* The first child of an OCO order refused by the venue, the second one
\* routed after it.
C13_RejectedThenNext ==
    \E a, b \in DOMAIN orders :
        /\ a # b
        /\ IsOcoChild(a) /\ IsOcoChild(b)
        /\ orders[a].status = "REJECTED"
        /\ orders[a].message = "Route error"
        /\ route_calls[a] = 1
        /\ route_calls[b] = 1

\* C14: each order id is handed to the venue at most once: a failed call
\* is not made again, and no order is routed by the intake and then once
\* more by the monitor.
C14_RoutedAtMostOnce ==
    \A id \in DOMAIN orders : route_calls[id] <= 1

\* A routing call that failed and was left at that, beside an order the
\* monitor has triggered.
C14_FailedNotRetried ==
    \E a, b \in DOMAIN orders :
        /\ route_calls[a] = 1
        /\ orders[a].status = "REJECTED"
        /\ orders[a].message = "Exchange error"
        /\ trig_count[b] = 1
        /\ inflight = {}

\* C15: an execution report that names an order id the ledger does not
\* hold fails as an unknown order and leaves every order, every position,
\* the trade journal and the order book as they were; a report that comes
\* after it for an order the ledger holds is taken as usual.
C15_UnknownOrderIgnored ==
    [][\A id \in TradeOrderIds, p \in TradePrices, q \in TradeQtys :
          (Fillable(id, q) /\ exec_report(ExecIn(id, p, q, "PARTIAL"))) =>
              /\ id \notin DOMAIN orders =>
                     /\ reply'.code = 404
                     /\ reply'.detail = <<"Unknown order for exec">>
                     /\ UNCHANGED <<orders, pending, positions, trade_journal,
                                    order_books>>
              /\ (id \in DOMAIN orders /\ reply.op = "exec_report" /\ reply.code = 404) =>
                     /\ reply'.code = 200
                     /\ orders'[id].filled_qty = orders[id].filled_qty + q
                     /\ Len(trade_journal') = Len(trade_journal) + 1]_vars

\* A report for an id the ledger does not hold, turned away while the
\* ledger, the positions and the journal hold earlier fills.
C15_UnknownTurnedAway ==
    /\ reply.op = "exec_report"
    /\ reply.code = 404
    /\ reply.id \notin DOMAIN orders
    /\ Cardinality(DOMAIN orders) = 2
    /\ Len(trade_journal) = 2
    /\ "AAPL" \in DOMAIN positions

\* C16: a SELL fill of quantity q, 0 < q <= Q, at price p against a
\* position of quantity Q and cost basis C adds q*p - (q/Q)*C to the
\* realized P&L and leaves quantity Q - q and cost basis C - (q/Q)*C.
C16_SellProportional ==
    [][\A id \in DOMAIN orders, p \in ReportPrices, q \in ReportQtys :
          ( /\ Reportable(id, q)
            /\ exec_report(ExecIn(id, p, q, "PARTIAL"))
            /\ reply'.code = 200
            /\ orders[id].side = "SELL"
            /\ orders[id].symbol \in DOMAIN positions
            /\ 0 < q
            /\ q <= positions[orders[id].symbol].quantity ) =>
              LET pos == positions[orders[id].symbol]
                  after == positions'[orders[id].symbol]
                  share == FMul(Frac(q, pos.quantity), pos.cost_basis)
              IN  /\ after.realized_pnl = FAdd(pos.realized_pnl, FSub(FInt(q * p), share))
                  /\ after.quantity = pos.quantity - q
                  /\ after.cost_basis = FSub(pos.cost_basis, share)]_vars

\* Half of a position of 2 bought at 10 sold at 40: 30 realized, quantity 1
\* and half the cost basis left.
C16_HalfSold ==
    /\ "AAPL" \in DOMAIN positions
    /\ positions["AAPL"].quantity = 1
    /\ positions["AAPL"].cost_basis = FInt(10)
    /\ positions["AAPL"].realized_pnl = FInt(30)
    /\ Len(trade_journal) = 3
    /\ trade_journal[3].side = "SELL"

\* C17: in every reachable state every position has a quantity that is not
\* negative and a cost basis equal to quantity * avg_price, after any
\* sequence of BUY and SELL fills: a BUY from zero, a SELL of the whole
\* position, a SELL of more than is held.
C17_PositionConsistent ==
    \A s \in DOMAIN positions :
        /\ positions[s].quantity >= 0
        /\ positions[s].cost_basis =
               FMul(FInt(positions[s].quantity), positions[s].avg_price)

\* A position of 1 bought at 10 and then oversold by a SELL of 3 at 40:
\* quantity and cost basis on the floor.
C17_Oversold ==
    /\ "AAPL" \in DOMAIN positions
    /\ positions["AAPL"].quantity = 0
    /\ positions["AAPL"].cost_basis = FInt(0)
    /\ positions["AAPL"].realized_pnl = FInt(90)
    /\ Len(trade_journal) = 2

\* C18: the filled_qty of an order never decreases from one state to the
\* next, under any sequence of execution reports, cancels and monitor
\* steps.
C18_FilledNeverDecreases ==
    [][\A id \in DOMAIN orders :
          orders'[id].filled_qty >= orders[id].filled_qty]_vars

\* An order that has taken a report.
C18_Reported ==
    \E id \in DOMAIN orders :
        /\ Len(orders[id].execution_log) = 2
        /\ orders[id].filled_qty = 4

\* C19: once a record operation has returned the trade journal holds at
\* most 1000 entries, and it is the oldest entry that was evicted: the
\* journal is the most recent entries, in the order they were appended.
C19_JournalBounded ==
    LET recorded == LogTotal(orders, Cardinality(DOMAIN orders))
        n == Len(trade_journal)
    IN  /\ n <= JournalCap
        /\ n = IF recorded <= JournalCap THEN recorded ELSE JournalCap
        /\ \A i \in 1..n : trade_journal[i].id = recorded - n + i

\* The journal full after two evictions.
C19_TwoEvicted ==
    /\ Len(trade_journal) = JournalCap
    /\ trade_journal[1].id = 3
    /\ trade_journal[JournalCap].id = JournalCap + 2

\* C20: an entry of the trade journal is never altered once it has been
\* appended: from one state to the next an entry that is still in the
\* journal has every field as before; entries are only appended or
\* evicted.
C20_EntriesImmutable ==
    [][\A i \in 1..Len(trade_journal), j \in 1..Len(trade_journal') :
          trade_journal'[j].id = trade_journal[i].id =>
              trade_journal'[j] = trade_journal[i]]_vars

\* The PUT endpoint has answered 200 for an entry of the journal.
C20_EntryUpdated ==
    /\ reply.op = "update_trade_journal"
    /\ reply.code = 200
    /\ \E i \in 1..Len(trade_journal) :
          /\ trade_journal[i].id = reply.id
          /\ trade_journal[i].outcome = "Profit"

\* C21: in a broadcast, a subscriber whose send fails keeps the payload
\* from no other subscriber that was connected when the broadcast began:
\* when the broadcast ends every one of them has been sent to or has
\* failed; and the subscribers the broadcast removes from the set are
\* exactly those whose send failed.
C21_BroadcastIsolated ==
    [][broadcast_end =>
          /\ sending.delivered \cup sending.dead = sending.began
          /\ sending.delivered \cap sending.dead = {}
          /\ clients \ clients' = clients \cap sending.dead
          /\ clients' \cap sending.dead = {}]_vars

\* A broadcast over three subscribers has ended: one send failed, two
\* went through, the failed one is out of the set.
C21_OneFailedTwoSent ==
    /\ ~sending.active
    /\ Cardinality(sending.began) = 3
    /\ Cardinality(sending.dead) = 1
    /\ Cardinality(sending.delivered) = 2
    /\ clients = sending.delivered

\* C22: every operation that changes the status of an order (intake,
\* monitor trigger, routing rejection, cancel and its cascade to the linked
\* order, execution report) emits a broadcast that carries that order.
C22_StatusChangeBroadcast ==
    [][\A id \in DOMAIN orders' :
          (IF id \in DOMAIN orders
           THEN orders'[id].status # orders[id].status
           ELSE orders'[id].status # "NEW") =>
              id \in broadcasts']_vars

\* A cancel that went through and cascaded to the linked order, with its
\* one broadcast.
C22_CascadeCanceled ==
    /\ reply.op = "cancel_order"
    /\ reply.code = 200
    /\ broadcasts = {reply.id}
    /\ \E d \in DOMAIN orders :
          /\ d # reply.id
          /\ orders[reply.id].linked_order_id = d
          /\ orders[d].message = "Canceled due to OCO"

\* C23: in every reachable state every entry of the pending-conditional
\* index is an order of the ledger in status STOP_PENDING; an order that
\* was cancelled (directly or by the cascade to the linked order), filled
\* or rejected is not in the index.
C23_IndexConsistent ==
    /\ \A i \in 1..Len(pending) :
          /\ pending[i] \in DOMAIN orders
          /\ orders[pending[i]].status = "STOP_PENDING"
    /\ \A id \in DOMAIN orders :
          orders[id].status \in Terminal => ~InPending(pending, id)

\* A conditional order cancelled by the user and taken out of the index
\* while another one waits in it.
C23_CanceledOutOfIndex ==
    \E a, b \in DOMAIN orders :
        /\ orders[a].order_type = "STOP"
        /\ orders[a].status = "CANCELED"
        /\ orders[a].message = "Canceled by user"
        /\ ~InPending(pending, a)
        /\ InPending(pending, b)
        /\ orders[b].status = "STOP_PENDING"

\* The trigger predicates as stated for the monitor, on an order that has
\* the prices they need.
StopPredicate(o, p) ==
    \/ o.side = "BUY" /\ p >= o.stop_price
    \/ o.side = "SELL" /\ p <= o.stop_price

TrailingPredicate(o, p) ==
    \/ o.side = "BUY" /\ p * 100 <= o.stop_price * 100 - p * o.trailing_percent
    \/ o.side = "SELL" /\ p * 100 >= o.stop_price * 100 + p * o.trailing_percent

\* What a monitor pass did to a pending order: triggered it, or left it
\* waiting.
TriggeredBy(id) == orders'[id].status = "TRIGGERED" /\ ~InPending(pending', id)
LeftPending(id) == orders'[id].status = orders[id].status /\ InPending(pending', id)

\* C24: in a monitor evaluation at the reference price p a pending STOP or
\* STOP_LIMIT order triggers exactly when (BUY and p >= stop_price) or
\* (SELL and p <= stop_price); otherwise it keeps its status and its place
\* in the pending index.
C24_StopTriggersIff ==
    [][monitor_conditional_orders =>
          \A i \in 1..Len(pending) :
              LET o == orders[pending[i]]
              IN  (o.order_type \in {"STOP", "STOP_LIMIT"} /\ o.stop_price # 0) =>
                      IF StopPredicate(o, RefPrice)
                      THEN TriggeredBy(pending[i])
                      ELSE LeftPending(pending[i])]_vars

\* A STOP_LIMIT SELL order triggered and a STOP order whose stop is not
\* reached left waiting.
C24_OneTriggeredOneLeft ==
    \E a, b \in DOMAIN orders :
        /\ orders[a].order_type = "STOP_LIMIT"
        /\ orders[a].status = "TRIGGERED"
        /\ trig_count[a] = 1
        /\ orders[b].order_type = "STOP"
        /\ orders[b].stop_price = 105
        /\ orders[b].status = "STOP_PENDING"
        /\ InPending(pending, b)
        /\ monitor.pass = 0

\* C25: in a monitor evaluation at the reference price p a pending
\* TRAILING_STOP or TRAILING_STOP_LIMIT order with trailing percent t
\* triggers exactly when (BUY and p <= stop_price - p*t/100) or (SELL and
\* p >= stop_price + p*t/100); the monitor evaluates both order types.
C25_TrailingTriggersIff ==
    [][monitor_conditional_orders =>
          \A i \in 1..Len(pending) :
              LET o == orders[pending[i]]
              IN  ( /\ o.order_type \in {"TRAILING_STOP", "TRAILING_STOP_LIMIT"}
                    /\ o.trailing_percent # 0
                    /\ o.stop_price # 0 ) =>
                      IF TrailingPredicate(o, RefPrice)
                      THEN TriggeredBy(pending[i])
                      ELSE LeftPending(pending[i])]_vars

\* A TRAILING_STOP order triggered beside a TRAILING_STOP_LIMIT order that
\* the passes so far have left waiting.
C25_TrailingTriggered ==
    \E a, b \in DOMAIN orders :
        /\ orders[a].order_type = "TRAILING_STOP"
        /\ orders[a].status = "TRIGGERED"
        /\ orders[b].order_type = "TRAILING_STOP_LIMIT"
        /\ orders[b].status = "STOP_PENDING"
        /\ monitor.task = "sleep1"

\* C26: when the evaluation of one pending order raises during a monitor
\* pass, the other pending orders are still evaluated in that pass, and
\* those whose trigger predicate holds are triggered and routed.
C26_RaiseDoesNotHaltPass ==
    [][monitor_conditional_orders =>
          ((\E i \in 1..Len(pending) : EvalRaises(orders[pending[i]])) =>
               \A j \in 1..Len(pending) :
                   LET o == orders[pending[j]]
                   IN  (~EvalRaises(o) /\ Triggered(o, RefPrice)) =>
                           /\ TriggeredBy(pending[j])
                           /\ route_calls'[pending[j]] = route_calls[pending[j]] + 1)]_vars

\* A pass has ended in the exception of an order without a stop price
\* while an order whose stop is reached waits behind it.
C26_PassRaised ==
    /\ monitor.task = "sleep5"
    /\ Len(pending) = 2
    /\ EvalRaises(orders[pending[1]])
    /\ Triggered(orders[pending[2]], RefPrice)

\* C27: no exception raised while a pass evaluates or routes ends the
\* monitor task, and after a pass that failed a later pass is always
\* started once the back-off is over.
C27_MonitorSurvives ==
    /\ [](monitor.task # "ended")
    /\ \A b \in {0, 1} :
           (monitor.task = "sleep5" /\ monitor.pass = b) ~> (monitor.pass # b)

\* Two orders triggered by the monitor: each trigger ended its pass in an
\* exception, so the second was made by a pass started after a failed one.
C27_PassAfterFailedPass ==
    /\ monitor.task = "sleep5"
    /\ \E a, b \in DOMAIN orders :
           /\ a # b
           /\ orders[a].status = "TRIGGERED" /\ trig_count[a] = 1
           /\ orders[b].status = "TRIGGERED" /\ trig_count[b] = 1

\* The trigger predicate of a waiting order as stated for its type.
PredicateHolds(o) ==
    \/ /\ o.order_type \in {"STOP", "STOP_LIMIT"}
       /\ o.stop_price # 0
       /\ StopPredicate(o, RefPrice)
    \/ /\ o.order_type \in {"TRAILING_STOP", "TRAILING_STOP_LIMIT"}
       /\ o.trailing_percent # 0
       /\ o.stop_price # 0
       /\ TrailingPredicate(o, RefPrice)

\* C28: with the monitor scheduled fairly, a conditional order that stays
\* in the pending index while its trigger predicate holds is eventually
\* triggered, also when several pending orders satisfy their predicate at
\* once.
C28_EventuallyTriggered ==
    \A id \in 1..MaxConditional :
        ( /\ id \in DOMAIN orders
          /\ InPending(pending, id)
          /\ PredicateHolds(orders[id]) )
        ~> ( /\ id \in DOMAIN orders
             /\ \/ orders[id].status = "TRIGGERED"
                \/ ~InPending(pending, id) )

\* Three orders whose predicates held at once, all triggered, one pass
\* each.
C28_AllThreeTriggered ==
    /\ Cardinality(DOMAIN orders) = MaxConditional
    /\ pending = <<>>
    /\ \A id \in DOMAIN orders :
           orders[id].status = "TRIGGERED" /\ trig_count[id] = 1

\* C29: the intake of an OCO order creates exactly two child orders, a
\* LIMIT order with the parent's limit price and a STOP order with the
\* parent's stop price, both linked to the parent's id and held in the
\* ledger, and each is sent to the venue once.
C29_OcoChildren ==
    ( /\ reply.op = "place_order"
      /\ reply.req.order_type = "OCO"
      /\ pretrade_checks(reply.req).ok ) =>
        /\ reply.id \in DOMAIN orders
        /\ LET kids == {d \in DOMAIN orders : orders[d].linked_order_id = reply.id}
           IN  /\ Cardinality(kids) = 2
               /\ \E a, b \in kids :
                      /\ orders[a].order_type = "LIMIT"
                      /\ orders[a].limit_price = reply.req.limit_price
                      /\ orders[b].order_type = "STOP"
                      /\ orders[b].stop_price = reply.req.stop_price
                      /\ route_calls[a] = 1
                      /\ route_calls[b] = 1

\* An OCO request the Risk Gate would let through has been answered.
C29_OcoAsked ==
    /\ reply.op = "place_order"
    /\ reply.req.order_type = "OCO"
    /\ pretrade_checks(reply.req).ok

\* C30: the intake of a BRACKET order creates exactly three child orders
\* in the ledger, all with the parent's id as parent_order_id: a MARKET
\* entry on the parent's side, and a LIMIT profit target and a STOP stop
\* loss on the opposite side, good till cancelled; only the entry is sent
\* to the venue.
C30_BracketChildren ==
    ( /\ reply.op = "place_order"
      /\ reply.req.order_type = "BRACKET"
      /\ pretrade_checks(reply.req).ok ) =>
        /\ reply.id \in DOMAIN orders
        /\ LET kids == {d \in DOMAIN orders : orders[d].parent_order_id = reply.id}
           IN  /\ Cardinality(kids) = 3
               /\ \E e, p, s \in kids :
                      /\ orders[e].order_type = "MARKET"
                      /\ orders[e].side = reply.req.side
                      /\ route_calls[e] = 1
                      /\ orders[p].order_type = "LIMIT"
                      /\ orders[p].limit_price = reply.req.profit_target
                      /\ orders[p].side = Opposite(reply.req.side)
                      /\ orders[p].tif = "GTC"
                      /\ route_calls[p] = 0
                      /\ orders[s].order_type = "STOP"
                      /\ orders[s].stop_price = reply.req.stop_loss
                      /\ orders[s].side = Opposite(reply.req.side)
                      /\ orders[s].tif = "GTC"
                      /\ route_calls[s] = 0

\* A BRACKET request the Risk Gate would let through has been answered.
C30_BracketAsked ==
    /\ reply.op = "place_order"
    /\ reply.req.order_type = "BRACKET"
    /\ pretrade_checks(reply.req).ok

\* The ledger update of exec_report (lines 976-1005) runs to its end for
\* er: the order is known and the average price can be computed.
LedgerUpdated(er) ==
    /\ er.order_id \in DOMAIN orders
    /\ NewAvg(orders[er.order_id], er, orders[er.order_id].filled_qty + er.qty) # {}

\* C31: after an execution report is applied to an existing order, the
\* order's status and message are exactly the report's, whatever status
\* the order had before and whatever quantity remains unfilled.
C31_StatusFromReport ==
    [][\A id \in 1..MaxOrders, p \in ExecPrices, k \in ExecKinds :
          LET er == ExecIn(id, p, k[1], k[2])
          IN  ( /\ Executions < MaxExecs
                /\ LedgerUpdated(er)
                /\ exec_report(er) ) =>
                  /\ orders'[id].status = er.status
                  /\ orders'[id].message = er.message]_vars

\* A report of a partial fill has been applied to a STOP order that was
\* waiting in the pending index: it is PARTIAL with the report's message.
C31_PendingOrderReported ==
    \E id \in DOMAIN orders :
        /\ orders[id].order_type = "STOP"
        /\ InPending(pending, id)
        /\ orders[id].status = "PARTIAL"
        /\ orders[id].message = "exec"
        /\ orders[id].leaves_qty = 1

\* C32: while an execution report is applied, the order_update broadcast
\* is emitted only after the order record, the position, the trade journal
\* and the order book have all been updated.
C32_BroadcastLast ==
    [][\A id \in 1..2, p \in FailingPrices, q \in FailingQtys :
          LET er == ExecIn(id, p, q, "PARTIAL")
              o == orders[id]
          IN  ( /\ id \in DOMAIN orders
                /\ Len(o.execution_log) < MaxFailing
                /\ Reportable(id, q)
                /\ exec_report(er)
                /\ id \in broadcasts' ) =>
                  /\ orders'[id].filled_qty = o.filled_qty + q
                  /\ orders'[id].status = er.status
                  /\ orders'[id].execution_log = Append(o.execution_log, <<p, q>>)
                  /\ positions' = update_position(positions, o.symbol, o.side, q, p)
                  /\ trade_journal' = add_to_trade_journal(trade_journal, er, o)
                  /\ Len(trade_journal') = Len(trade_journal) + 1
                  /\ order_books' = update_order_book(order_books, o.symbol, o.side,
                                                      p, q, "REMOVE")]_vars

\* A report has been applied and broadcast: its order, the journal and the
\* position show it.
C32_ReportBroadcast ==
    \E id \in DOMAIN orders :
        /\ broadcasts = {id}
        /\ reply.op = "exec_report"
        /\ reply.code = 200
        /\ orders[id].status = "PARTIAL"
        /\ Len(orders[id].execution_log) = 1
        /\ Len(trade_journal) = 1
        /\ "AAPL" \in DOMAIN positions

\* C33: the update of filled_qty, leaves_qty, avg_price and status for an
\* execution report has no suspension point, so no other task (cancel,
\* get or list, monitor pass) observes an order whose filled_qty is updated
\* and whose leaves_qty is not: in every state between two steps
\* leaves_qty is max(0, qty - filled_qty).
C33_NoHalfUpdate ==
    \A id \in DOMAIN orders :
        orders[id].leaves_qty = Max(0, orders[id].qty - orders[id].filled_qty)

\* A cancel has run after a report: it found the order with 3 filled and 7
\* left.
C33_CancelAfterFill ==
    \E id \in DOMAIN orders :
        /\ reply.op = "cancel_order"
        /\ reply.id = id
        /\ reply.code = 200
        /\ orders[id].filled_qty = 3
        /\ orders[id].leaves_qty = 7
        /\ orders[id].status = "CANCELED"

\* C34: when deriving the trade-journal entry for an execution raises (as
\* for a LIMIT order that has no limit price), the execution-report
\* operation still completes successfully and still emits the order
\* broadcast.
C34_JournalFailureHarmless ==
    [][\A id \in 1..2, p \in FailingPrices, q \in FailingQtys :
          LET er == ExecIn(id, p, q, "PARTIAL")
          IN  ( /\ id \in DOMAIN orders
                /\ Len(orders[id].execution_log) < MaxFailing
                /\ Reportable(id, q)
                /\ LedgerUpdated(er)
                /\ JournalRaises(orders[id])
                /\ exec_report(er) ) =>
                  /\ reply'.code = 200
                  /\ id \in broadcasts']_vars

\* A report for the LIMIT order without a limit price has been handled.
C34_JournalRaised ==
    \E id \in DOMAIN orders :
        /\ orders[id].order_type = "LIMIT"
        /\ orders[id].limit_price = 0
        /\ reply.op = "exec_report"
        /\ reply.id = id
        /\ reply.detail = <<"Internal server error", "journal">>
        /\ orders[id].filled_qty = 1

\* C35: when the journal derivation fails after the fill has been applied
\* to the order record, the order keeps the updated filled_qty, leaves_qty,
\* avg_price and status: nothing applied to the order is rolled back.
C35_FillKept ==
    [][\A id \in 1..2, p \in FailingPrices, q \in FailingQtys :
          LET er == ExecIn(id, p, q, "PARTIAL")
              o == orders[id]
          IN  ( /\ id \in DOMAIN orders
                /\ Len(o.execution_log) < MaxFailing
                /\ Reportable(id, q)
                /\ LedgerUpdated(er)
                /\ JournalRaises(o)
                /\ exec_report(er) ) =>
                  /\ orders'[id].filled_qty = o.filled_qty + q
                  /\ orders'[id].leaves_qty = Max(0, o.qty - (o.filled_qty + q))
                  /\ orders'[id].avg_price \in NewAvg(o, er, o.filled_qty + q)
                  /\ orders'[id].status = er.status]_vars

\* The journal derivation failed on the first fill of the LIMIT order
\* without a limit price, and the order holds that fill.
C35_FillKeptAfterFailure ==
    \E id \in DOMAIN orders :
        /\ reply.op = "exec_report"
        /\ reply.id = id
        /\ reply.code = 500
        /\ trade_journal = <<>>
        /\ orders[id].status = "PARTIAL"
        /\ orders[id].filled_qty = 1
        /\ orders[id].leaves_qty = 1
        /\ orders[id].avg_price = <<100 * Micro>>

\* C36: when an execution report fails with an internal error raised
\* inside the ledger update (a division by zero where the cumulative
\* filled quantity is 0), the order record and the position are left
\* exactly as they were before the report.
C36_FailedUpdateLeavesNoTrace ==
    [][\A id \in 1..2, p \in FailingPrices, q \in FailingQtys :
          LET er == ExecIn(id, p, q, "PARTIAL")
          IN  ( /\ id \in DOMAIN orders
                /\ Len(orders[id].execution_log) < MaxFailing
                /\ Reportable(id, q)
                /\ ~LedgerUpdated(er)
                /\ exec_report(er) ) =>
                  /\ orders'[id] = orders[id]
                  /\ positions' = positions]_vars

\* A report has failed in the division: the order it named has no filled
\* quantity and still the average price of its first fill.
C36_DivisionFailed ==
    \E id \in DOMAIN orders :
        /\ reply.op = "exec_report"
        /\ reply.id = id
        /\ reply.detail = <<"Internal server error", "division by zero">>
        /\ orders[id].filled_qty = 0
        /\ orders[id].avg_price # <<>>

\* C37: when cancel(order_id) succeeds on an order whose linked order is
\* already FILLED, CANCELED or REJECTED, the linked order's status and
\* message are left unchanged.
C37_TerminalLinkedUntouched ==
    [][\A id \in 1..MaxOrders :
          ( /\ id \in DOMAIN orders
            /\ ~CancelRefused(orders[id])
            /\ orders[id].linked_order_id \in DOMAIN orders
            /\ orders[orders[id].linked_order_id].status \in Terminal
            /\ cancel_order(id) ) =>
              LET linked == orders[id].linked_order_id
              IN  /\ orders'[id].status = "CANCELED"
                  /\ orders'[linked].status = orders[linked].status
                  /\ orders'[linked].message = orders[linked].message]_vars

\* An order has been cancelled whose linked order was FILLED before: the
\* linked order still is.
C37_CanceledBesideFilled ==
    \E a, b \in DOMAIN orders :
        /\ a # b
        /\ orders[a].linked_order_id = b
        /\ reply.op = "cancel_order"
        /\ reply.id = a
        /\ reply.code = 200
        /\ orders[a].status = "CANCELED"
        /\ orders[b].status = "FILLED"
        /\ orders[b].message = "exec"

\* C38: an order that has become CANCELED, directly or through the cascade
\* from its linked order, is never afterwards triggered or routed by the
\* monitor, however cancels and monitor passes interleave.
C38_CanceledNeverTriggered ==
    [][\A id \in DOMAIN orders :
          orders[id].status = "CANCELED" =>
              /\ orders'[id].status # "TRIGGERED"
              /\ trig_count'[id] = trig_count[id]
              /\ monitor_conditional_orders => route_calls'[id] = route_calls[id]]_vars

\* An order cancelled by the cascade has been triggered by a later pass.
C38_TriggeredAfterCascade ==
    \E id \in DOMAIN orders :
        /\ orders[id].message = "Canceled due to OCO"
        /\ orders[id].status = "TRIGGERED"
        /\ trig_count[id] = 1
        /\ ~InPending(pending, id)

\* C39: a SELL fill of less than the held quantity leaves the position's
\* avg_price unchanged: the cost basis is released in proportion to the
\* quantity sold.
C39_SellKeepsAvgPrice ==
    [][\A id \in 1..2, p \in PositionPrices, q \in PositionQtys :
          LET er == ExecIn(id, p, q, "PARTIAL")
              o == orders[id]
          IN  ( /\ id \in DOMAIN orders
                /\ Len(trade_journal) < MaxPositionReports
                /\ Reportable(id, q)
                /\ o.side = "SELL"
                /\ o.symbol \in DOMAIN positions
                /\ q > 0
                /\ q < positions[o.symbol].quantity
                /\ exec_report(er) ) =>
                  positions'[o.symbol].avg_price = positions[o.symbol].avg_price]_vars

\* 1 of 4 shares bought at 10 has been sold at 50: 3 are held, still at
\* 10, and 40 is realized.
C39_SoldOneOfFour ==
    /\ "AAPL" \in DOMAIN positions
    /\ positions["AAPL"].quantity = 3
    /\ positions["AAPL"].avg_price = FInt(10)
    /\ positions["AAPL"].cost_basis = FInt(30)
    /\ positions["AAPL"].realized_pnl = FInt(40)

====
